---------------------------- MODULE Spec2Model ----------------------------
(***************************************************************************)
(* A model of beanstalkdrs (src/src/main.rs): the nom-based command        *)
(* parser, the per-connection Parser buffer, the Server job store and its  *)
(* run loop, and the accept loop of main.                                  *)
(*                                                                         *)
(* Bytes are one-character strings, byte strings are sequences of them.    *)
(***************************************************************************)
EXTENDS Integers, Sequences, FiniteSets, TLC

(***************************************************************************)
(* Bounds of the model.                                                    *)
(***************************************************************************)
\* connections the listener accepts in one run
MaxConns == 2
\* commands the clients send in one run, over all connections
MaxCmds == 4
\* commands a client sends in one burst, before the server reads again
MaxBurst == 2
\* SpecStore: jobs ready in the queue at once
MaxReady == 1
\* SpecStore: ids the reserved-jobs table ever holds
MaxReserved == 1

(***************************************************************************)
(* Bytes.                                                                  *)
(***************************************************************************)
SP == " "
TAB == "\t"
CR == "\r"
LF == "\n"
\* the byte iter::repeat(0) fills the buffer with
NUL == "NUL"

DigitSeq == <<"0", "1", "2", "3", "4", "5", "6", "7", "8", "9">>
Digits == {DigitSeq[i] : i \in 1..10}
Letters ==
    {"a", "b", "c", "d", "e", "f", "g", "h", "i", "j", "k", "l", "m",
     "n", "o", "p", "q", "r", "s", "t", "u", "v", "w", "x", "y", "z",
     "A", "B", "C", "D", "E", "F", "G", "H", "I", "J", "K", "L", "M",
     "N", "O", "P", "Q", "R", "S", "T", "U", "V", "W", "X", "Y", "Z"}

Min(a, b) == IF a < b THEN a ELSE b

Drop(w, n) == SubSeq(w, n + 1, Len(w))

(***************************************************************************)
(* nom combinators, as beanstalk_request uses them on &[u8].               *)
(***************************************************************************)
\* tag!(t): compares the common prefix first, then asks for more bytes
tag(t, w) ==
    LET m == Min(Len(w), Len(t))
    IN  IF SubSeq(w, 1, m) # SubSeq(t, 1, m) THEN "Error"
        ELSE IF m < Len(t) THEN "Incomplete"
        ELSE "Done"

Keywords ==
    << <<"p", "u", "t">>,
       <<"r", "e", "s", "e", "r", "v", "e">>,
       <<"d", "e", "l", "e", "t", "e">> >>

\* alt!(tag!("put") | tag!("reserve") | tag!("delete")): the first branch
\* that is not an Error decides
RECURSIVE alt(_, _)
alt(w, i) ==
    IF i > Len(Keywords) THEN [res |-> "Error", kw |-> 0]
    ELSE LET r == tag(Keywords[i], w)
         IN  IF r = "Error" THEN alt(w, i + 1) ELSE [res |-> r, kw |-> i]

\* length of the longest prefix of w made of bytes of S
RECURSIVE RunLen(_, _)
RunLen(w, S) ==
    IF w = <<>> \/ Head(w) \notin S THEN 0 ELSE 1 + RunLen(Tail(w), S)

\* nom::space and nom::alphanumeric: one or more bytes of the class; the
\* whole input counts as a match when every byte is of the class
many1(w, S) ==
    IF w = <<>> THEN [res |-> "Incomplete", n |-> 0]
    ELSE IF RunLen(w, S) = 0 THEN [res |-> "Error", n |-> 0]
    ELSE [res |-> "Done", n |-> RunLen(w, S)]

space(w) == many1(w, {SP, TAB})

alphanumeric(w) == many1(w, Letters \cup Digits)

\* opt!(p): an Error of p is "nothing matched", Incomplete stays Incomplete
opt(r) == IF r.res = "Error" THEN [res |-> "None", n |-> 0] ELSE r

None == [some |-> FALSE, v |-> <<>>]
Some(v) == [some |-> TRUE, v |-> v]

CRLF == <<CR, LF>>

\* the steps of do_parse!, last first: each gets the input left and what
\* the steps before it matched
\* tag!("\r\n") >> (command, data)
RequestEnd(kw, arg, w3, t) ==
    IF t # "Done" THEN [res |-> t]
    ELSE [res |-> "Done", command |-> Keywords[kw], data |-> arg,
          rest |-> Drop(w3, 2)]

\* data: opt!(alphanumeric)
RequestData(kw, w2, a) ==
    IF a.res = "Incomplete" THEN [res |-> "Incomplete"]
    ELSE RequestEnd(kw,
                    IF a.res = "Done" THEN Some(SubSeq(w2, 1, a.n)) ELSE None,
                    Drop(w2, a.n),
                    tag(CRLF, Drop(w2, a.n)))

\* opt!(space)
RequestSpace(kw, w1, s) ==
    IF s.res = "Incomplete" THEN [res |-> "Incomplete"]
    ELSE RequestData(kw, Drop(w1, s.n), opt(alphanumeric(Drop(w1, s.n))))

\* command: alt!(...)
RequestCommand(w, c) ==
    IF c.res # "Done" THEN [res |-> c.res]
    ELSE RequestSpace(c.kw, Drop(w, Len(Keywords[c.kw])),
                      opt(space(Drop(w, Len(Keywords[c.kw])))))

beanstalk_request(w) == RequestCommand(w, alt(w, 1))

Put == "Put"
Reserve == "Reserve"
Delete == "Delete"

Command(kw) ==
    IF kw = Keywords[1] THEN Put
    ELSE IF kw = Keywords[2] THEN Reserve
    ELSE Delete

\* the match of parse_nom on the result r of beanstalk_request(input)
ParseResult(r, input) ==
    IF r.res = "Done"
    THEN [ok      |-> TRUE,
          request |-> [command |-> Command(r.command), data |-> r.data],
          len     |-> Len(input)]
    ELSE IF r.res = "Incomplete"
    THEN [ok |-> FALSE, err |-> "Incomplete"]
    ELSE [ok |-> FALSE, err |-> "InvalidArgument"]

\* parse_nom: the length it reports is the length of its whole input
parse_nom(input) == ParseResult(beanstalk_request(input), input)

(***************************************************************************)
(* Parser: the per-connection buffer and its two cursors.                  *)
(***************************************************************************)
\* Parser::new
NewParser == [data |-> <<>>, position |-> 0, written |-> 0]

\* the slice data[position..written] the parser decodes from
Window(p) == SubSeq(p.data, p.position + 1, p.written)

\* mutant of allocate: the buffer gets its first 16 bytes and never grows
allocate_no_double(p) ==
    LET rewind  == p.position > 0 /\ p.written = p.position
    IN  [data     |-> p.data \o [i \in 1..(IF Len(p.data) = 0 THEN 16 ELSE 0)
                                   |-> NUL],
         position |-> IF rewind THEN 0 ELSE p.position,
         written  |-> IF rewind THEN 0 ELSE p.written]

\* mutant of allocate: the cursors are never rewound
allocate_no_rewind(p) ==
    LET len == Len(p.data)
        add == IF len = 0 THEN 16
               ELSE IF p.written * 2 > len THEN len
               ELSE 0
    IN  [data     |-> p.data \o [i \in 1..add |-> NUL],
         position |-> p.position,
         written  |-> p.written]

\* Parser::allocate: rewind the cursors when everything was consumed, then
\* grow: 16 bytes for an empty buffer, doubling when more than half is filled
allocate(p) ==
    LET rewind  == p.position > 0 /\ p.written = p.position
        wr      == IF rewind THEN 0 ELSE p.written
        pos     == IF rewind THEN 0 ELSE p.position
        len     == Len(p.data)
        add     == IF len = 0 THEN 16
                   ELSE IF wr * 2 > len THEN len
                   ELSE 0
    IN  [data     |-> p.data \o [i \in 1..add |-> NUL],
         position |-> pos,
         written  |-> wr]

\* Parser::is_incomplete
is_incomplete(p) ==
    LET r == parse_nom(Window(p))
    IN  IF r.ok THEN FALSE ELSE r.err = "Incomplete"

\* mutant of next: position moves one byte past the bytes decoded
next_one_past(p) ==
    LET r == parse_nom(Window(p))
    IN  IF r.ok
        THEN [ok |-> TRUE, request |-> r.request,
              parser |-> [p EXCEPT !.position = p.position + r.len + 1]]
        ELSE [ok |-> FALSE, err |-> r.err, parser |-> p]

\* Parser::next: the decoded request (or the error) and the parser after it
next(p) ==
    LET r == parse_nom(Window(p))
    IN  IF r.ok
        THEN [ok |-> TRUE, request |-> r.request,
              parser |-> [p EXCEPT !.position = p.position + r.len]]
        ELSE [ok |-> FALSE, err |-> r.err, parser |-> p]

\* mutant of ReadInto: the read fills the buffer from its start, not from
\* written on
ReadIntoFromStart(p, bytes, n) ==
    [p EXCEPT !.data = [i \in 1..Len(p.data) |->
                          IF i <= n THEN bytes[i] ELSE p.data[i]]]

\* stream.read(&mut buffer[pos..]) having returned the first n bytes of wire
ReadInto(p, bytes, n) ==
    [p EXCEPT !.data = [i \in 1..Len(p.data) |->
                          IF p.written < i /\ i <= p.written + n
                          THEN bytes[i - p.written]
                          ELSE p.data[i]]]

(***************************************************************************)
(* Server: the job store.  A server value is the record of the fields      *)
(* queue, reserved_jobs and auto_increment_index.                          *)
(***************************************************************************)
\* u8
U8 == 256

NoPanic == "none"

Job(id, pri, delay, ttr, d, reserved) ==
    [id |-> id, priority |-> pri, delay |-> delay, ttr |-> ttr,
     data |-> d, deleted |-> FALSE, reserved |-> reserved]

\* HashMap::insert
Insert(m, k, v) == [x \in DOMAIN m \cup {k} |-> IF x = k THEN v ELSE m[x]]

\* HashMap::remove
Remove(m, k) == [x \in DOMAIN m \ {k} |-> m[x]]

\* Server::new
NewServer == [queue |-> <<>>, reserved_jobs |-> <<>>, auto_increment_index |-> 0]

\* auto_increment_index += 1 on a u8: a build with overflow checks panics at
\* 255, a build without them wraps to 0
NextIndex(idx) == (idx + 1) % U8

\* mutant of put: the id returned is the counter before the increment
put_returns_old(srv, pri, delay, ttr, d, checks) ==
    [srv   |-> [srv EXCEPT
                  !.auto_increment_index = NextIndex(@),
                  !.queue = Insert(@, NextIndex(srv.auto_increment_index),
                                   Job(NextIndex(srv.auto_increment_index),
                                       pri, delay, ttr, d, FALSE))],
     ret   |-> srv.auto_increment_index,
     panic |-> NoPanic]

\* Server::put
put(srv, pri, delay, ttr, d, checks) ==
    IF srv.auto_increment_index + 1 >= U8 /\ checks
    THEN [srv |-> srv, ret |-> 0, panic |-> "attempt to add with overflow"]
    ELSE LET id == NextIndex(srv.auto_increment_index)
         IN  [srv   |-> [srv EXCEPT
                           !.auto_increment_index = id,
                           !.queue = Insert(@, id, Job(id, pri, delay, ttr, d, FALSE))],
              ret   |-> id,
              panic |-> NoPanic]

\* the jobs the filter of Server::reserve lets through; take(1) yields the
\* first of them in the HashMap's iteration order, which is unspecified
ReserveItems(q) == {id \in DOMAIN q : ~q[id].reserved}

\* Server::reserve, the HashMap iteration having yielded job pick first
reserve(srv, pick) ==
    IF pick \notin ReserveItems(srv.queue)
    THEN [srv |-> srv, ret |-> <<0, <<>> >>, panic |-> "No more jobs!"]
    ELSE LET job == srv.queue[pick]
         IN  [srv   |-> [srv EXCEPT
                           !.queue = [@ EXCEPT ![pick].reserved = TRUE],
                           !.reserved_jobs =
                               Insert(@, pick, Job(job.id, job.priority, job.delay,
                                                   job.ttr, job.data, FALSE))],
              ret   |-> <<pick, job.data>>,
              panic |-> NoPanic]

\* what the HashMap iteration can yield first: any job the filter lets
\* through, or nothing when there is none (0 then stands for "no item")
ReservePicks(q) == IF ReserveItems(q) = {} THEN {0} ELSE ReserveItems(q)

\* mutant of delete: a reserved job is not removed
delete_ready_only(srv, id) ==
    IF id \in DOMAIN srv.queue /\ ~srv.queue[id].reserved
    THEN [srv   |-> [srv EXCEPT !.queue = Remove(@, id)],
          ret   |-> Some(srv.queue[id]),
          panic |-> NoPanic]
    ELSE [srv |-> srv, ret |-> None, panic |-> NoPanic]

\* Server::delete
delete(srv, id) ==
    [srv   |-> [srv EXCEPT !.queue = Remove(@, id)],
     ret   |-> IF id \in DOMAIN srv.queue THEN Some(srv.queue[id]) ELSE None,
     panic |-> NoPanic]


(***************************************************************************)
(* Conversions of Server::run: the decimal text of an id (format!) and     *)
(* the id a delete argument stands for (str::parse::<u8>).                 *)
(***************************************************************************)
DigitVal(c) == CHOOSE i \in 0..9 : DigitSeq[i + 1] = c

\* format!("{}", n)
RECURSIVE Dec(_)
Dec(n) ==
    IF n < 10 THEN <<DigitSeq[n + 1]>>
    ELSE Dec(n \div 10) \o <<DigitSeq[(n % 10) + 1]>>

RECURSIVE DecValue(_)
DecValue(s) ==
    IF s = <<>> THEN 0
    ELSE DecValue(SubSeq(s, 1, Len(s) - 1)) * 10 + DigitVal(s[Len(s)])

\* str::parse::<u8>: decimal digits only, and a value a u8 holds
parse_u8(s) ==
    IF s # <<>> /\ (\A i \in 1..Len(s) : s[i] \in Digits) /\ DecValue(s) < U8
    THEN [ok |-> TRUE, v |-> DecValue(s)]
    ELSE [ok |-> FALSE, v |-> 0]

INSERTED == <<"I", "N", "S", "E", "R", "T", "E", "D", SP>>
RESERVED == <<"R", "E", "S", "E", "R", "V", "E", "D", SP>>
DELETED == <<"D", "E", "L", "E", "T", "E", "D">> \o CRLF
NOT_FOUND == <<"N", "O", "T", SP, "F", "O", "U", "N", "D">> \o CRLF

\* what the last executed command was and what the store returned for it
NoOp == [op |-> "none", id |-> 0, found |-> FALSE, tick |-> FALSE]
Op(name, id, found, before) ==
    [op |-> name, id |-> id, found |-> found, tick |-> ~before.tick]

\* the three arms of the match on request.command in Server::run: the
\* server after the command, the bytes written to the stream, the panic if
\* the arm panics
PutArm(srv, req, checks, before) ==
    IF ~req.data.some
    THEN [srv |-> srv, out |-> <<>>, last |-> before,
          panic |-> "unwrap on None"]
    ELSE LET r == put(srv, 1, 1, 1, req.data.v, checks)
         IN  IF r.panic # NoPanic
             THEN [srv |-> srv, out |-> <<>>, last |-> before, panic |-> r.panic]
             ELSE [srv   |-> r.srv,
                   out   |-> INSERTED \o Dec(r.ret) \o CRLF,
                   last  |-> Op("put", r.ret, TRUE, before),
                   panic |-> NoPanic]

ReserveArm(srv, pick, before) ==
    LET r == reserve(srv, pick)
    IN  IF r.panic # NoPanic
        THEN [srv |-> srv, out |-> <<>>, last |-> before, panic |-> r.panic]
        ELSE [srv   |-> r.srv,
              out   |-> RESERVED \o Dec(r.ret[1]) \o <<SP>> \o Dec(Len(r.ret[2]))
                          \o CRLF \o r.ret[2] \o CRLF,
              last  |-> Op("reserve", r.ret[1], TRUE, before),
              panic |-> NoPanic]

DeleteArm(srv, req, before) ==
    IF ~req.data.some
    THEN [srv |-> srv, out |-> <<>>, last |-> before,
          panic |-> "unwrap on None"]
    ELSE LET id == parse_u8(req.data.v)
         IN  IF ~id.ok
             THEN [srv |-> srv, out |-> <<>>, last |-> before,
                   panic |-> "unwrap on ParseIntError"]
             ELSE LET r == delete(srv, id.v)
                  IN  [srv   |-> r.srv,
                       out   |-> IF r.ret.some THEN DELETED ELSE NOT_FOUND,
                       last  |-> Op("delete", id.v, r.ret.some, before),
                       panic |-> NoPanic]

Dispatch(srv, req, pick, checks, before) ==
    IF req.command = Put THEN PutArm(srv, req, checks, before)
    ELSE IF req.command = Reserve THEN ReserveArm(srv, pick, before)
    ELSE DeleteArm(srv, req, before)


(***************************************************************************)
(* The commands the clients of the model send.                             *)
(***************************************************************************)
Release == <<"r", "e", "l", "e", "a", "s", "e">>

Line(kw, arg) == kw \o (IF arg = <<>> THEN <<>> ELSE <<SP>> \o arg) \o CRLF

PayloadLong == <<"h", "e", "l", "l", "o", "w", "o", "r", "l", "d", "1">>

Cmds ==
    {"put helloworld1", "reserve", "delete 1", "delete 999", "release 1"}

CmdBytes(c) ==
    CASE c = "put helloworld1" -> Line(Keywords[1], PayloadLong)
      [] c = "reserve"         -> Line(Keywords[2], <<>>)
      [] c = "delete 1"        -> Line(Keywords[3], <<"1">>)
      [] c = "delete 999"      -> Line(Keywords[3], <<"9", "9", "9">>)
      [] c = "release 1"       -> Line(Release, <<"1">>)

(***************************************************************************)
(* State.                                                                  *)
(***************************************************************************)
VARIABLES
    pc,                    \* where main is: "accept", "run" (inside
                           \* server.run()) or "panicked" (process dead)
    panic,                 \* the panic that killed the process, or NoPanic
    exit,                  \* history: why run last returned, NoExit while
                           \* the session of this connection has not ended
    conn,                  \* connections accepted so far
    queue,                 \* Server.queue
    reserved_jobs,         \* Server.reserved_jobs
    auto_increment_index,  \* Server.auto_increment_index
    data,                  \* Parser.data
    position,              \* Parser.position
    written,               \* Parser.written
    wire,                  \* bytes the client sent that no read returned yet
    client_closed,         \* the client closed its end of the connection
    budget,                \* commands the clients may still send
    sent,                  \* history: commands sent on this connection
    decoded,               \* history: requests Parser::next returned on it
    out,                   \* history: responses written on it, per request
    lockstep,              \* history: each command was sent only after the
                           \* responses to all earlier ones
    burst,                 \* commands sent since the server last read
    split,                 \* history: the window last handed to the parser
                           \* was filled by more than one read
    last,                  \* history: the last command executed
    held,                  \* history: ids reserve returned, not deleted since
    deleted,               \* history: ids deleted, not returned by put since
    live                   \* history: <<connection, id>> of the jobs put and
                           \* not deleted since, over all connections

vars ==
    <<pc, panic, exit, conn, queue, reserved_jobs, auto_increment_index, data,
      position, written, wire, client_closed, budget, sent, decoded, out,
      lockstep, burst, split, last, held, deleted, live>>

Srv ==
    [queue |-> queue, reserved_jobs |-> reserved_jobs,
     auto_increment_index |-> auto_increment_index]

Prs == [data |-> data, position |-> position, written |-> written]

SetServer(s) ==
    /\ queue' = s.queue
    /\ reserved_jobs' = s.reserved_jobs
    /\ auto_increment_index' = s.auto_increment_index

SetParser(p) ==
    /\ data' = p.data
    /\ position' = p.position
    /\ written' = p.written

\* the history of reservations, deletions and live jobs after command l
HeldAfter(h, l) ==
    IF l.op = "reserve" THEN h \cup {l.id}
    ELSE IF l.op = "delete" THEN h \ {l.id}
    ELSE h

DeletedAfter(d, l) ==
    IF l.op = "delete" /\ l.found THEN d \cup {l.id}
    ELSE IF l.op = "put" THEN d \ {l.id}
    ELSE d

LiveAfter(lv, c, l) ==
    IF l.op = "put" THEN lv \cup {<<c, l.id>>}
    ELSE IF l.op = "delete" /\ l.found THEN lv \ {<<c, l.id>>}
    ELSE lv

Executed(l) ==
    /\ last' = l
    /\ held' = HeldAfter(held, l)
    /\ deleted' = DeletedAfter(deleted, l)
    /\ live' = LiveAfter(live, conn, l)

\* whether the build panics on integer overflow (a debug build does, a
\* release build wraps): it matters only when the counter is at its maximum
BuildChecks(idx) == IF idx + 1 >= U8 THEN BOOLEAN ELSE {FALSE}

NoExit == "none"

\* no server and no parser exist outside server.run()
NoSession ==
    /\ queue = NewServer.queue
    /\ reserved_jobs = NewServer.reserved_jobs
    /\ auto_increment_index = NewServer.auto_increment_index
    /\ data = NewParser.data
    /\ position = NewParser.position
    /\ written = NewParser.written

Init ==
    /\ pc = "accept"
    /\ panic = NoPanic
    /\ exit = NoExit
    /\ conn = 0
    /\ NoSession
    /\ wire = <<>>
    /\ client_closed = FALSE
    /\ budget = MaxCmds
    /\ sent = <<>>
    /\ decoded = <<>>
    /\ out = <<>>
    /\ lockstep = TRUE
    /\ burst = 0
    /\ split = FALSE
    /\ last = NoOp
    /\ held = {}
    /\ deleted = {}
    /\ live = {}


(***************************************************************************)
(* main: the accept loop.  A connection is served to its end, inside       *)
(* server.run(), before the next one is accepted.                          *)
(***************************************************************************)
\* listener.incoming() yields a stream: Server::new(stream), then run()
\* starts with Parser::new()
Accept ==
    /\ pc = "accept"
    /\ conn < MaxConns
    /\ conn' = conn + 1
    /\ pc' = "run"
    /\ SetServer(NewServer)
    /\ SetParser(NewParser)
    /\ wire' = <<>>
    /\ client_closed' = FALSE
    /\ sent' = <<>>
    /\ decoded' = <<>>
    /\ out' = <<>>
    /\ lockstep' = TRUE
    /\ burst' = 0
    /\ split' = FALSE
    /\ last' = NoOp
    /\ held' = {}
    /\ deleted' = {}
    /\ exit' = NoExit
    /\ UNCHANGED <<panic, budget, live>>

\* listener.incoming() yields an error: panic!("error listen")
AcceptError ==
    /\ pc = "accept"
    /\ pc' = "panicked"
    /\ panic' = "error listen"
    /\ UNCHANGED <<exit, conn, queue, reserved_jobs, auto_increment_index, data,
                   position, written, wire, client_closed, budget, sent,
                   decoded, out, lockstep, burst, split, last, held, deleted, live>>

(***************************************************************************)
(* The client of the connection being served.                              *)
(***************************************************************************)
\* the client sends one more command, either after the server has read all
\* it sent before or in one burst with the commands it has just sent
ClientSend(c) ==
    /\ pc = "run"
    /\ ~client_closed
    /\ budget > 0
    /\ wire = <<>> \/ burst > 0
    /\ burst < MaxBurst
    /\ burst' = burst + 1
    /\ budget' = budget - 1
    /\ wire' = wire \o CmdBytes(c)
    /\ sent' = Append(sent, c)
    /\ lockstep' = (lockstep /\ wire = <<>> /\ Len(out) = Len(sent))
    /\ UNCHANGED <<pc, panic, exit, conn, queue, reserved_jobs, auto_increment_index,
                   data, position, written, client_closed, decoded, out,
                   split, last, held, deleted, live>>

\* the client closes its end, after the server has read all it sent
ClientClose ==
    /\ pc = "run"
    /\ ~client_closed
    /\ wire = <<>>
    /\ client_closed' = TRUE
    /\ UNCHANGED <<pc, panic, exit, conn, queue, reserved_jobs, auto_increment_index,
                   data, position, written, wire, budget, sent, decoded, out,
                   lockstep, burst, split, last, held, deleted, live>>

(***************************************************************************)
(* Server::run: one iteration of its loop.                                 *)
(***************************************************************************)
\* what stream.read can return into a slice of room bytes: some of the
\* bytes in flight, 0 at the end of the stream (or for an empty slice), an
\* error; it blocks while nothing is in flight and the client has not closed
ReadResults(room) ==
    {[kind |-> "ok", n |-> k] : k \in 1..Min(Len(wire), room)}
      \cup (IF room = 0 \/ (wire = <<>> /\ client_closed)
            THEN {[kind |-> "ok", n |-> 0]} ELSE {})
      \cup {[kind |-> "err", n |-> 0]}

\* mutant of Break: the loop of run goes on after the break
BreakContinues(why) ==
    /\ pc' = "run"
    /\ exit' = why
    /\ UNCHANGED <<panic, conn, queue, reserved_jobs, auto_increment_index,
                   data, position, written, wire, client_closed, budget, sent,
                   decoded, out, lockstep, burst, split, last, held, deleted,
                   live>>

\* run returns (break): server and parser are dropped, main accepts again
Break(why) ==
    /\ pc' = "accept"
    /\ exit' = why
    /\ SetServer(NewServer)
    /\ SetParser(NewParser)
    /\ wire' = <<>>
    /\ client_closed' = FALSE
    /\ burst' = 0
    /\ split' = FALSE
    /\ UNCHANGED <<panic, conn, budget, sent, decoded, out, lockstep, last,
                   held, deleted, live>>

\* the iteration goes on with parser p after a read that returned n bytes
\* into the window of parser w
AfterRead(p, n, w) ==
    /\ SetParser(p)
    /\ wire' = Drop(wire, n)
    /\ burst' = IF n = 0 THEN burst ELSE 0
    /\ split' = IF n = 0 THEN split ELSE w.written - n > w.position

\* the rest of the iteration, from parser.next() on
Decode(p, n, pick, checks) ==
    LET r == next(p)
        d == Dispatch(Srv, r.request, pick, checks, last)
    IN  IF r.ok
        THEN IF d.panic # NoPanic
             THEN /\ pc' = "panicked"
                  /\ panic' = d.panic
                  /\ AfterRead(r.parser, n, p)
                  /\ decoded' = Append(decoded, r.request)
                  /\ UNCHANGED <<exit, conn, queue, reserved_jobs,
                                 auto_increment_index, client_closed, budget,
                                 sent, out, lockstep, last, held, deleted,
                                 live>>
             ELSE /\ AfterRead(r.parser, n, p)
                  /\ queue' = d.srv.queue
                  /\ reserved_jobs' = d.srv.reserved_jobs
                  /\ auto_increment_index' = d.srv.auto_increment_index
                  /\ decoded' = Append(decoded, r.request)
                  /\ out' = Append(out, d.out)
                  /\ Executed(d.last)
                  /\ UNCHANGED <<pc, panic, exit, conn, client_closed, budget, sent,
                                 lockstep>>
        ELSE IF r.err = "Incomplete"
        THEN /\ AfterRead(p, n, p)
             /\ UNCHANGED <<pc, panic, exit, conn, queue, reserved_jobs,
                            auto_increment_index, client_closed, budget, sent,
                            decoded, out, lockstep, last, held, deleted, live>>
        ELSE Break("protocol error")

run ==
    /\ pc = "run"
    /\ \E pick \in ReservePicks(queue), checks \in BuildChecks(auto_increment_index) :
         IF is_incomplete(Prs)
         THEN LET p1 == allocate(Prs)
              IN  \E rd \in ReadResults(Len(p1.data) - p1.written) :
                    IF rd.kind = "err" \/ rd.n = 0
                    THEN Break(IF rd.kind = "err" THEN "read error"
                               ELSE "client closed")
                    ELSE Decode([ReadInto(p1, wire, rd.n) EXCEPT
                                   !.written = @ + rd.n],
                                rd.n, pick, checks)
         ELSE Decode(Prs, 0, pick, checks)

Next ==
    \/ Accept
    \/ AcceptError
    \/ \E c \in Cmds : ClientSend(c)
    \/ ClientClose
    \/ run

Spec == Init /\ [][Next]_vars

(***************************************************************************)
(* SpecStore: one long session seen at the level of the commands it        *)
(* executes, without the bytes: each action is one arm of the match in     *)
(* Server::run, given the request Parser::next returned.  It is there for  *)
(* the runs of more than 255 puts, which the byte-level Spec cannot reach. *)
(* The histories of the bytes (sent, decoded, out) and the sets deleted    *)
(* and live are not kept here.                                             *)
(***************************************************************************)
InitStore ==
    /\ pc = "run"
    /\ panic = NoPanic
    /\ exit = NoExit
    /\ conn = 1
    /\ NoSession
    /\ wire = <<>>
    /\ client_closed = FALSE
    /\ budget = 0
    /\ sent = <<>>
    /\ decoded = <<>>
    /\ out = <<>>
    /\ lockstep = TRUE
    /\ burst = 0
    /\ split = FALSE
    /\ last = NoOp
    /\ held = {}
    /\ deleted = {}
    /\ live = {}

\* the session executes request req
Execute(req, pick, checks) ==
    LET d == Dispatch(Srv, req, pick, checks, last)
    IN  /\ pc = "run"
        /\ IF d.panic # NoPanic
           THEN /\ pc' = "panicked"
                /\ panic' = d.panic
                /\ UNCHANGED <<queue, reserved_jobs, auto_increment_index,
                               last, held>>
           ELSE /\ SetServer(d.srv)
                /\ last' = d.last
                /\ held' = HeldAfter(held, d.last)
                /\ UNCHANGED <<pc, panic>>
        /\ UNCHANGED <<exit, conn, data, position, written, wire,
                       client_closed, budget, sent, decoded, out, lockstep, burst, split,
                       deleted, live>>

StorePut ==
    /\ Cardinality(ReserveItems(queue)) < MaxReady
    /\ \E checks \in BuildChecks(auto_increment_index) :
         Execute([command |-> Put, data |-> Some(PayloadLong)], 0, checks)

StoreReserve ==
    \E pick \in ReservePicks(queue) :
      /\ Cardinality(DOMAIN reserved_jobs \cup {pick}) <= MaxReserved
      /\ Execute([command |-> Reserve, data |-> None], pick, FALSE)

StoreDelete ==
    \E id \in DOMAIN queue :
      Execute([command |-> Delete, data |-> Some(Dec(id))], 0, FALSE)

NextStore ==
    \/ StorePut
    \/ StoreReserve
    \/ StoreDelete

SpecStore == InitStore /\ [][NextStore]_vars

TypeOK ==
    /\ pc \in {"accept", "run", "panicked"}
    /\ conn \in 0..MaxConns
    /\ budget \in 0..MaxCmds
    /\ position \in 0..written
    /\ written \in 0..Len(data)


(***************************************************************************)
(* The claims.                                                             *)
(***************************************************************************)
\* this step executed a command of kind op (the store returned for it)
Did(op) == last'.tick # last.tick /\ last'.op = op

\* the response written for the request executed last
LastOut == out[Len(out)]

\* C1: the ids put returns are strictly increasing, start at 1 and never
\* repeat, also past the 255th put, and a put never overwrites a job that is
\* still in the queue.  (The id the previous put returned is the value of
\* auto_increment_index before the step.)
C1_PutIdsIncrease ==
    [][/\ panic' # "attempt to add with overflow"
       /\ Did("put") =>
            /\ last'.id > auto_increment_index
            /\ last.op = "none" => last'.id = 1
            /\ last'.id \notin DOMAIN queue]_vars

\* C2: reserve never returns an id that an earlier reserve returned and
\* that no delete has been given since.
C2_ReserveExclusive == [][Did("reserve") => last'.id \notin held]_vars

\* C3: one store is shared by all connections: while a connection is
\* served, every job put on any connection and not deleted since is in the
\* queue, and no id was handed out on two connections.
C3_OneSharedStore ==
    /\ pc = "run" => \A e \in live : e[2] \in DOMAIN queue
    /\ \A e, f \in live : e[2] = f[2] => e[1] = f[1]

\* C4: a reserve issued when no job is ready never panics the process.
C4_ReserveWithoutJobNoPanic == panic # "No more jobs!"

\* C5: reserve returns, among the ready jobs, the one with the lowest
\* priority value, ties broken by the smallest id.
C5_ReserveLowestFirst ==
    [][Did("reserve") =>
         \A j \in ReserveItems(queue) :
            \/ queue[last'.id].priority < queue[j].priority
            \/ /\ queue[last'.id].priority = queue[j].priority
               /\ last'.id <= j]_vars


\* C6: delete removes the job whatever its state and reports DELETED; after
\* it, until a put returns the same id again, the id is not in the queue,
\* no reserve returns it, and a second delete of it reports NOT FOUND.
C6_DeleteRemoves ==
    [][/\ (Did("delete") /\ last'.id \in DOMAIN queue) =>
            /\ last'.found
            /\ LastOut' = DELETED
            /\ last'.id \notin DOMAIN queue'
       /\ deleted' \cap DOMAIN queue' = {}
       /\ Did("reserve") => last'.id \notin deleted
       /\ (Did("delete") /\ last'.id \in deleted) =>
            /\ ~last'.found
            /\ LastOut' = NOT_FOUND
            /\ queue' = queue]_vars

\* a reserved job was deleted, and the delete after that was answered
\* NOT FOUND
C6_Witness ==
    /\ pc = "run"
    /\ last.op = "delete"
    /\ ~last.found
    /\ last.id \in deleted
    /\ last.id \in DOMAIN reserved_jobs
    /\ LastOut = NOT_FOUND

AllDigits(s) == s # <<>> /\ \A i \in 1..Len(s) : s[i] \in Digits

\* C7: a delete command whose id is not a key of the queue is answered
\* NOT FOUND, without a panic, and leaves queue, reserved_jobs and the id
\* counter as they were.
C7_DeleteAbsentNotFound ==
    [][(/\ Len(decoded') = Len(decoded) + 1
        /\ decoded'[Len(decoded')].command = Delete
        /\ decoded'[Len(decoded')].data.some
        /\ AllDigits(decoded'[Len(decoded')].data.v)
        /\ DecValue(decoded'[Len(decoded')].data.v) \notin DOMAIN queue)
       => /\ pc' = "run"
          /\ panic' = NoPanic
          /\ out' = Append(out, NOT_FOUND)
          /\ UNCHANGED <<queue, reserved_jobs, auto_increment_index>>]_vars

\* the commands of the grammar
Valid(c) == parse_nom(CmdBytes(c)).ok

\* C8: in a session whose commands are sent one at a time, each however
\* its bytes are split over the reads and whether or not the buffer has to
\* grow: while bytes of the last command are outstanding nothing was decoded
\* or answered for it; once all its bytes are read exactly the request that
\* parsing the whole command gives was decoded; and the session never ends
\* on a protocol error.
C8_ParserResumable ==
    (lockstep /\ sent # <<>> /\ \A i \in 1..Len(sent) : Valid(sent[i])) =>
       /\ exit # "protocol error"
       /\ exit = NoExit =>
            IF wire # <<>>
            THEN /\ Len(decoded) = Len(sent) - 1
                 /\ Len(out) = Len(sent) - 1
            ELSE /\ Len(decoded) = Len(sent)
                 /\ decoded[Len(sent)] = parse_nom(CmdBytes(sent[Len(sent)])).request
                 /\ pc = "run" => Len(out) = Len(sent)

\* a put longer than the first buffer was decoded from several reads, the
\* buffer having grown in between
C8_Witness ==
    /\ pc = "run"
    /\ lockstep
    /\ split
    /\ Len(data) > 16
    /\ wire = <<>>
    /\ sent # <<>>
    /\ Len(decoded) = Len(sent)
    /\ decoded[Len(sent)] = [command |-> Put, data |-> Some(PayloadLong)]

Script == <<"put helloworld1", "reserve", "delete 1", "delete 1">>

Answers ==
    << <<"I", "N", "S", "E", "R", "T", "E", "D", " ", "1", "\r", "\n">>,
       <<"R", "E", "S", "E", "R", "V", "E", "D", " ", "1", " ", "1", "1",
         "\r", "\n", "h", "e", "l", "l", "o", "w", "o", "r", "l", "d", "1",
         "\r", "\n">>,
       <<"D", "E", "L", "E", "T", "E", "D", "\r", "\n">>,
       <<"N", "O", "T", " ", "F", "O", "U", "N", "D", "\r", "\n">> >>

\* C9: on a fresh connection, put P, reserve, delete 1, delete 1, each sent
\* after the response to the one before, are answered INSERTED 1,
\* RESERVED 1 <len(P)> with the bytes of P, DELETED and NOT FOUND; and
\* whenever the last command executed is a reserve, its response carries the
\* id of a job put on this connection, the length of the payload stored
\* under that id, and that payload.
C9_EndToEnd ==
    /\ (lockstep /\ sent = SubSeq(Script, 1, Len(sent))) =>
          /\ \A i \in 1..Len(out) : out[i] = Answers[i]
          /\ (exit = NoExit /\ wire = <<>>) => Len(out) = Len(sent)
    /\ (exit = NoExit /\ pc = "run" /\ last.op = "reserve") =>
          /\ <<conn, last.id>> \in live
          /\ last.id \in DOMAIN queue
          /\ LastOut = RESERVED \o Dec(last.id) \o <<SP>>
                         \o Dec(Len(queue[last.id].data)) \o CRLF
                         \o queue[last.id].data \o CRLF

\* the four commands were sent and answered
C9_Witness ==
    /\ lockstep
    /\ sent = Script
    /\ out = Answers

\* C10: put, reserve, release <id>, reserve on an otherwise empty store: the
\* release is answered RELEASED and does not end the session, and the second
\* reserve returns the job the first one returned.
C10_ReleaseRoundTrip ==
    (/\ lockstep
     /\ Len(sent) >= 3
     /\ SubSeq(sent, 1, 3) = <<"put helloworld1", "reserve", "release 1">>
     /\ exit \notin {"read error", "client closed"})
    => /\ exit = NoExit
       /\ Len(out) >= 3 =>
            out[3] = <<"R", "E", "L", "E", "A", "S", "E", "D", "\r", "\n">>
       /\ (Len(out) >= 4 /\ sent[4] = "reserve") => out[4] = out[2]

\* C11: a delete whose argument is not a valid job id (not a number, out of
\* the range of the id type, or missing) and a put without argument are
\* invalid commands: none of them panics the process.
C11_BadArgumentNoPanic ==
    panic \notin {"unwrap on None", "unwrap on ParseIntError"}

\* C12: whatever a client sends and whatever its reads return, the process
\* does not terminate: only a failure to accept a connection, which is
\* outside the core, stops the broker.
C12_ErrorIsolation == pc = "panicked" => panic = "error listen"

\* C13: while a connection is open and idle, its server blocked in the
\* socket read, the listener is accepting: the next connection can be
\* accepted and served.
C13_ParallelConnections ==
    (pc = "run" /\ wire = <<>> /\ ~client_closed /\ conn < MaxConns)
       => ENABLED Accept

\* C14: when the peer has closed and every byte it sent was read, the next
\* step of the session is a read that returns zero bytes (or an error): run
\* returns to the accept loop without decoding a command, without executing
\* a store operation, without writing a response and without a panic, and no
\* job that was reserved becomes ready; and run ends as "client closed" only
\* after such a read.
C14_PeerClose ==
    [][/\ (pc = "run" /\ client_closed /\ wire = <<>>) =>
            /\ pc' = "accept"
            /\ exit' \in {"client closed", "read error"}
            /\ decoded' = decoded
            /\ out' = out
            /\ last' = last
            /\ panic' = panic
            /\ \A id \in DOMAIN queue' :
                 ~queue'[id].reserved =>
                    id \in DOMAIN queue /\ ~queue[id].reserved
       /\ (exit = NoExit /\ exit' = "client closed") =>
            client_closed /\ wire = <<>>]_vars

\* a session that held a reserved job ended on the close of its peer
C14_Witness ==
    /\ pc = "accept"
    /\ exit = "client closed"
    /\ held # {}
    /\ last.op = "reserve"

\* C15: once a command that does not match the grammar was sent, nothing is
\* decoded, executed or answered for it or for what follows it, and when
\* all its bytes have been read the session has ended (on the protocol
\* error, unless a panic, a read error or the close of the peer came first).
C15_InvalidEndsSession ==
    \A i \in 1..Len(sent) :
       ~Valid(sent[i]) =>
          /\ Len(decoded) < i
          /\ Len(out) < i
          /\ (wire = <<>> /\ pc # "panicked"
                /\ exit \notin {"read error", "client closed"})
               => exit = "protocol error"

\* C16: whatever way the bytes of valid commands arrive, several commands in
\* one read included, the requests decoded are those of the commands sent,
\* in their order; once every byte sent has been read each command was
\* decoded and answered; and the session does not end on a protocol error.
C16_PipelinedCommands ==
    (\A i \in 1..Len(sent) : Valid(sent[i])) =>
       /\ exit # "protocol error"
       /\ Len(decoded) <= Len(sent)
       /\ \A i \in 1..Len(decoded) :
            decoded[i] = parse_nom(CmdBytes(sent[i])).request
       /\ (pc = "run" /\ exit = NoExit /\ wire = <<>>) =>
            /\ Len(decoded) = Len(sent)
            /\ Len(out) = Len(sent)

\* C17: reserved_jobs holds exactly the ids of the jobs of the queue that
\* are reserved, each with the payload the queue has for it.
C17_SingleSourceOfTruth ==
    /\ DOMAIN reserved_jobs = {id \in DOMAIN queue : queue[id].reserved}
    /\ \A id \in DOMAIN reserved_jobs :
         reserved_jobs[id].data = queue[id].data

\* 0 <= position <= written <= len(data) for parser p
CursorsInOrder(p) ==
    /\ 0 <= p.position
    /\ p.position <= p.written
    /\ p.written <= Len(p.data)

\* C18: 0 <= position <= written <= len(data) at the top of every iteration
\* of the session loop and after the allocate the iteration starts with.
C18_CursorInvariant ==
    /\ CursorsInOrder(Prs)
    /\ pc = "run" => CursorsInOrder(allocate(Prs))

\* a command was decoded from a buffer that had grown, and is consumed
C18_Witness ==
    /\ pc = "run"
    /\ position = written
    /\ position > 16
    /\ written < Len(data)

\* the capacity the stated policy gives a buffer of len bytes of which wr
\* are filled
PolicyLen(len, wr) ==
    IF len = 0 THEN 16 ELSE IF wr * 2 > len THEN 2 * len ELSE len

\* C19: after allocate, before every read, written < len(data), the capacity
\* being 16 for an empty buffer, doubled when written * 2 > len, unchanged
\* otherwise (written taken after the rewind of the cursors); and run ends
\* as "client closed" only when the peer has closed.
C19_RoomBeforeRead ==
    /\ [](pc = "run" =>
            /\ allocate(Prs).written < Len(allocate(Prs).data)
            /\ Len(allocate(Prs).data)
                 = PolicyLen(Len(data), allocate(Prs).written))
    /\ [][(exit = NoExit /\ exit' = "client closed") => client_closed]_vars

\* a read filled the first 16 bytes to the last one, and the next read
\* found room in the doubled buffer
C19_Witness ==
    /\ pc = "run"
    /\ split
    /\ Len(data) = 32
    /\ written > 16

\* the commands sent so far are valid and were sent one at a time
Steady == lockstep /\ \A i \in 1..Len(sent) : Valid(sent[i])

\* C20 as stated: in a session of valid commands sent one at a time every
\* read starts writing at offset 0.
C20_EveryReadAtZero ==
    (Steady /\ pc = "run") => allocate(Prs).written = 0

\* C20: when everything received was consumed (position = written > 0) both
\* cursors are zero after allocate; in a session of valid commands sent one
\* at a time the first read of each command starts writing at offset 0, and
\* the capacity stays within the 32 bytes the longest command needs.
C20_Reclaim ==
    /\ (pc = "run" /\ position = written /\ position > 0) =>
          /\ allocate(Prs).position = 0
          /\ allocate(Prs).written = 0
    /\ (Steady /\ pc = "run" /\ sent # <<>>
          /\ wire = CmdBytes(sent[Len(sent)])) =>
          allocate(Prs).written = 0
    /\ Steady => Len(data) <= 32

\* a later command of the session is being read into the rewound buffer
C20_Witness ==
    /\ Steady
    /\ pc = "run"
    /\ Len(decoded) >= 1
    /\ position = 0
    /\ written > 0
    /\ written < Len(CmdBytes(sent[Len(sent)]))

=============================================================================
